---- MODULE Spec2Model ----
(***************************************************************************)
(* Model of the gallery page CilinGallery of                               *)
(* src/app/ceramic_marble_nocart.jsx: the manifest loader (JSON with CSV   *)
(* fallback), the CSV parser, the item normaliser, the facet extractor and *)
(* the filter engine.                                                      *)
(*                                                                         *)
(* A JavaScript string is a sequence of characters; a character is a TLA+  *)
(* string: the character itself for ASCII, "U+XXXX" for the others.  An    *)
(* absent value (undefined) is the value None.                             *)
(***************************************************************************)
EXTENDS Integers, Sequences, FiniteSets, TLC

VARIABLES pc, fetches, jsonResp, csvResp, data, items, q, activeTags,
          activeCategories, quick, raw, once, twice, imgs, clicks

vars == <<pc, fetches, jsonResp, csvResp, data, items, q, activeTags,
          activeCategories, quick, raw, once, twice, imgs, clicks>>

pageVars == <<pc, fetches, jsonResp, csvResp, data, items, q, activeTags,
              activeCategories, quick>>

normVars == <<raw, once, twice>>

\* the media elements of the cards
domVars == <<imgs>>

\* clicks is a history of the user's clicks, no state of the page: the chip
\* values clicked an odd number of times since the last reset, per selection
\* list, and whether the reset button was the last handler to set the filter

(***************************************************************************)
(* Characters                                                              *)
(***************************************************************************)
Upper == <<"A","B","C","D","E","F","G","H","I","J","K","L","M",
           "N","O","P","Q","R","S","T","U","V","W","X","Y","Z">>
Lower == <<"a","b","c","d","e","f","g","h","i","j","k","l","m",
           "n","o","p","q","r","s","t","u","v","w","x","y","z">>
Digits == <<"0","1","2","3","4","5","6","7","8","9">>

\* the other characters of the model, each with its UTF-16 code unit
OtherCode ==
  [c \in {"\t", "\n", "\r", " ", "!", "\"", "#", "%", "'", "(", ")", "*",
          ",", "-", ".", "/", ":", "?", "_", "~",
          "U+0627", "U+0628", "U+062A", "U+062C", "U+062E", "U+062F",
          "U+0631", "U+0633", "U+0634", "U+0637", "U+063A", "U+0641",
          "U+0643", "U+0644", "U+0645", "U+0646", "U+0648", "U+064A",
          "U+FEFF"} |->
     CASE c = "\t" -> 9   [] c = "\n" -> 10  [] c = "\r" -> 13
       [] c = " "  -> 32  [] c = "!"  -> 33  [] c = "\"" -> 34
       [] c = "#"  -> 35  [] c = "%"  -> 37  [] c = "'"  -> 39
       [] c = "("  -> 40  [] c = ")"  -> 41  [] c = "*"  -> 42
       [] c = ","  -> 44  [] c = "-"  -> 45  [] c = "."  -> 46
       [] c = "/"  -> 47  [] c = ":"  -> 58  [] c = "?"  -> 63
       [] c = "_"  -> 95  [] c = "~"  -> 126
       [] c = "U+0627" -> 1575 [] c = "U+0628" -> 1576 [] c = "U+062A" -> 1578
       [] c = "U+062C" -> 1580 [] c = "U+062E" -> 1582 [] c = "U+062F" -> 1583
       [] c = "U+0631" -> 1585 [] c = "U+0633" -> 1587 [] c = "U+0634" -> 1588
       [] c = "U+0637" -> 1591 [] c = "U+063A" -> 1594 [] c = "U+0641" -> 1601
       [] c = "U+0643" -> 1603 [] c = "U+0644" -> 1604 [] c = "U+0645" -> 1605
       [] c = "U+0646" -> 1606 [] c = "U+0648" -> 1608 [] c = "U+064A" -> 1610
       [] c = "U+FEFF" -> 65279]

Range(s) == {s[i] : i \in 1..Len(s)}

Alphabet == Range(Upper) \cup Range(Lower) \cup Range(Digits) \cup DOMAIN OtherCode

IndexIn(s, c) == CHOOSE i \in 1..Len(s) : s[i] = c

\* the UTF-16 code unit of a character
CodePoint ==
  [c \in Alphabet |->
     IF c \in Range(Upper) THEN 64 + IndexIn(Upper, c)
     ELSE IF c \in Range(Lower) THEN 96 + IndexIn(Lower, c)
     ELSE IF c \in Range(Digits) THEN 47 + IndexIn(Digits, c)
     ELSE OtherCode[c]]

\* a code unit that is no character of the model
Unknown == "U+????"

CharOf(n) ==
  IF \E c \in Alphabet : CodePoint[c] = n
  THEN CHOOSE c \in Alphabet : CodePoint[c] = n
  ELSE Unknown

Code(c) == IF c \in Alphabet THEN CodePoint[c] ELSE 65533

\* String.prototype.toLowerCase, on one character
LowerChar ==
  [c \in Alphabet |-> IF c \in Range(Upper) THEN Lower[IndexIn(Upper, c)] ELSE c]

\* white space and line terminators, as String.prototype.trim sees them
WhiteSpace == {"\t", "\n", "\r", " ", "U+FEFF"}

(***************************************************************************)
(* Strings                                                                 *)
(***************************************************************************)
\* F(x) and F(x, y) with the arguments computed once, before the call, as
\* JavaScript computes them
Call(F(_), x) == CHOOSE r \in {F(v) : v \in {x}} : TRUE

Call2(F(_, _), x, y) == CHOOSE r \in {F(v, w) : v \in {x}, w \in {y}} : TRUE

None == <<"undefined">>

Present(s) == s # None

\* s ?? d
OrElse(s, d) == Call(LAMBDA v : IF Present(v) THEN v ELSE d, s)

\* !!s for a string or undefined
Truthy(s) == Call(LAMBDA v : Present(v) /\ Len(v) > 0, s)

toLowerCase(s) ==
  Call(LAMBDA v : [i \in 1..Len(v) |-> IF v[i] \in Alphabet THEN LowerChar[v[i]] ELSE v[i]], s)

Drop(s, n) == Call(LAMBDA v : SubSeq(v, n + 1, Len(v)), s)

\* the elements of s at the indexes of the set idx, in the order of s
Pick(s, idx) ==
  Call2(LAMBDA v, w :
          [k \in 1..Cardinality(w) |->
             v[CHOOSE i \in w : Cardinality({j \in w : j < i}) = k - 1]], s, idx)

\* the literal p is in s at position i
MatchAt(s, p, i) ==
  /\ i >= 1
  /\ i + Len(p) - 1 <= Len(s)
  /\ \A k \in 1..Len(p) : s[i + k - 1] = p[k]

startsWith(s, p) == Call2(LAMBDA v, w : MatchAt(v, w, 1), s, p)

endsWith(s, p) == Call2(LAMBDA v, w : MatchAt(v, w, Len(v) - Len(w) + 1), s, p)

includes(s, p) == Call2(LAMBDA v, w : \E i \in 1..(Len(v) + 1) : MatchAt(v, w, i), s, p)

\* String.prototype.trim
trim(s) ==
  Call(LAMBDA v :
         LET keep == {i \in 1..Len(v) : v[i] \notin WhiteSpace}
         IN IF keep = {} THEN <<>>
            ELSE SubSeq(v, CHOOSE i \in keep : \A j \in keep : i <= j,
                           CHOOSE i \in keep : \A j \in keep : j <= i), s)

\* s.split(sep) for a one-character separator: the parts between the
\* separators, always at least one part
split(s, sep) ==
  Call(LAMBDA v :
         Call(LAMBDA ends :
                [k \in 1..Len(ends) |->
                   SubSeq(v, IF k = 1 THEN 1 ELSE ends[k - 1] + 1, ends[k] - 1)],
              Pick([i \in 1..(Len(v) + 1) |-> i],
                   {i \in 1..Len(v) : v[i] = sep} \cup {Len(v) + 1})), s)

\* parts.join(sep), computed by halves
RECURSIVE JoinParts(_, _)
JoinParts(parts, sep) ==
  IF Len(parts) = 0 THEN <<>>
  ELSE IF Len(parts) = 1 THEN parts[1]
  ELSE Call2(LAMBDA l, r : JoinParts(l, sep) \o sep \o JoinParts(r, sep),
             SubSeq(parts, 1, Len(parts) \div 2),
             SubSeq(parts, (Len(parts) \div 2) + 1, Len(parts)))

join(parts, sep) == Call2(JoinParts, parts, sep)

\* the concatenation of a sequence of strings
Concat(parts) == join(parts, <<>>)

(***************************************************************************)
(* encodeURIComponent and decodeURIComponent (ECMAScript), and the         *)
(* exception a call may end with                                           *)
(***************************************************************************)
Throws == <<"throw">>

HexDigits == <<"0","1","2","3","4","5","6","7","8","9","A","B","C","D","E","F">>

Hex2(b) == <<"%", HexDigits[(b \div 16) + 1], HexDigits[(b % 16) + 1]>>

\* the UTF-8 bytes of a code unit of the basic plane
Utf8(n) ==
  IF n < 128 THEN <<n>>
  ELSE IF n < 2048 THEN <<192 + (n \div 64), 128 + (n % 64)>>
  ELSE <<224 + (n \div 4096), 128 + ((n \div 64) % 64), 128 + (n % 64)>>

\* the characters encodeURIComponent leaves alone: A-Z a-z 0-9 - _ . ! ~ * ' ( )
Unreserved(c) ==
  \/ c \in Range(Upper) \cup Range(Lower) \cup Range(Digits)
  \/ c \in {"-", "_", ".", "!", "~", "*", "'", "(", ")"}

EncodeChar(c) ==
  IF Unreserved(c) THEN <<c>>
  ELSE Call(LAMBDA bytes : Concat([k \in 1..Len(bytes) |-> Hex2(bytes[k])]),
            Utf8(Code(c)))

encodeURIComponent(s) ==
  Call(LAMBDA v : Concat([i \in 1..Len(v) |-> EncodeChar(v[i])]), s)

HexVal(c) ==
  IF \E k \in 1..16 : HexDigits[k] = c \/ LowerChar[HexDigits[k]] = c
  THEN (CHOOSE k \in 1..16 : HexDigits[k] = c \/ LowerChar[HexDigits[k]] = c) - 1
  ELSE 0 - 1

\* the byte of the escape %XX at position i of s, or a negative number when
\* no escape is there
ByteAt(s, i) ==
  IF i + 2 <= Len(s) /\ s[i] = "%" /\ HexVal(s[i + 1]) >= 0 /\ HexVal(s[i + 2]) >= 0
  THEN 16 * HexVal(s[i + 1]) + HexVal(s[i + 2])
  ELSE 0 - 1

IsCont(b) == b >= 128 /\ b <= 191

\* the escape sequence at position i of s: the characters it stands for and
\* its length, or <<>> when it is malformed
EscapeAt(s, i) ==
  Call(LAMBDA b :
         LET c2 == ((b[1] - 192) * 64) + (b[2] - 128)
             c3 == ((b[1] - 224) * 4096) + ((b[2] - 128) * 64) + (b[3] - 128)
         IN IF b[1] < 0 THEN <<>>
            ELSE IF b[1] < 128 THEN <<<<CharOf(b[1])>>, 3>>
            ELSE IF b[1] >= 194 /\ b[1] <= 223
              THEN IF IsCont(b[2]) THEN <<<<CharOf(c2)>>, 6>> ELSE <<>>
            ELSE IF b[1] >= 224 /\ b[1] <= 239
              THEN IF IsCont(b[2]) /\ IsCont(b[3]) /\ c3 >= 2048
                      /\ ~(c3 >= 55296 /\ c3 <= 57343)
                   THEN <<<<CharOf(c3)>>, 9>> ELSE <<>>
            ELSE IF b[1] >= 240 /\ b[1] <= 244
              THEN IF IsCont(b[2]) /\ IsCont(b[3]) /\ IsCont(b[4])
                   THEN <<<<Unknown, Unknown>>, 12>> ELSE <<>>
            ELSE <<>>,
       <<ByteAt(s, i), ByteAt(s, i + 3), ByteAt(s, i + 6), ByteAt(s, i + 9)>>)

\* one step of the decoding, on the position i, the output so far and
\* whether the input is well formed so far
StepDecode(st, s) ==
  IF s[st.i] # "%"
  THEN [st EXCEPT !.out = Append(st.out, s[st.i]), !.i = st.i + 1]
  ELSE Call(LAMBDA e :
              IF e = <<>> THEN [st EXCEPT !.ok = FALSE, !.i = Len(s) + 1]
              ELSE [st EXCEPT !.out = st.out \o e[1], !.i = st.i + e[2]],
            EscapeAt(s, st.i))

\* at most n steps, computed by halves
RECURSIVE LoopDecode(_, _, _)
LoopDecode(st, s, n) ==
  IF n = 0 \/ st.i > Len(s) THEN st
  ELSE IF n = 1 THEN StepDecode(st, s)
  ELSE Call(LAMBDA mid : LoopDecode(mid, s, n - (n \div 2)),
            LoopDecode(st, s, n \div 2))

decodeURIComponent(s) ==
  Call(LAMBDA st : IF st.ok THEN st.out ELSE Throws,
       Call(LAMBDA v : LoopDecode([i |-> 1, out |-> <<>>, ok |-> TRUE], v, Len(v)), s))

(***************************************************************************)
(* Small utils and the item normaliser                                     *)
(***************************************************************************)
\* the sentinel placeholder category (U+0645 U+0646 U+062A U+062C)
Sentinel == <<"U+0645", "U+0646", "U+062A", "U+062C">>

ZIP_CATEGORIES ==
  << <<"U+0645", "U+063A", "U+0627", "U+0633", "U+0644">>,
     <<"U+0631", "U+062E", "U+0627", "U+0645", " ", "U+0648", " ",
       "U+0633", "U+064A", "U+0631", "U+0627", "U+0645", "U+064A", "U+0643">>,
     <<"U+062F", "U+0631", "U+062C", " ", "U+0648", "U+0637", "U+0627",
       "U+0648", "U+0644", "U+0627", "U+062A">>,
     <<"U+062E", "U+0644", "U+0641", "U+064A", "U+0627", "U+062A", " ",
       "U+062E", "U+0634", "U+0628">> >>

isNonEmpty(s) == Call(LAMBDA v : Truthy(v) /\ Len(trim(v)) > 0, s)

splitTags(tags) ==
  Call(LAMBDA v :
         IF isNonEmpty(v)
         THEN Call(LAMBDA parts :
                     SelectSeq([i \in 1..Len(parts) |-> trim(parts[i])],
                               LAMBDA t : Len(t) > 0),
                   split(v, ","))
         ELSE <<>>, tags)

\* p.replace(/^\//, ""): one leading slash removed
StripOneSlash(p) ==
  Call(LAMBDA v : IF startsWith(v, <<"/">>) THEN Tail(v) ELSE v, p)

\* p.replace(/^\/+/, "")
StripLeadingSlashes(p) ==
  Call(LAMBDA v :
         LET n == Cardinality({i \in 1..Len(v) : \A j \in 1..i : v[j] = "/"})
         IN SubSeq(v, n + 1, Len(v)), p)

\* /^https?:\/\//i.test(p)
HasProto(p) ==
  Call(LAMBDA l :
         \/ startsWith(l, <<"h","t","t","p",":","/","/">>)
         \/ startsWith(l, <<"h","t","t","p","s",":","/","/">>), toLowerCase(p))

normalizeUrlPath(p) ==
  Call(LAMBDA v :
         IF ~Truthy(v) THEN v
         ELSE IF HasProto(v) THEN v
         ELSE Call(LAMBDA segs :
                     (IF startsWith(v, <<"/">>) THEN <<"/">> ELSE <<>>)
                       \o join([i \in 1..Len(segs) |-> encodeURIComponent(segs[i])],
                               <<"/">>),
                   split(StripLeadingSlashes(v), "/")), p)

\* shouldSkipPath comparing src as it is written, without toLowerCase
shouldSkipPathCased(src) ==
  Call(LAMBDA s :
         \/ includes(s, <<"/", ".", "_">>)
         \/ endsWith(s, <<".","d","s","_","s","t","o","r","e">>)
         \/ endsWith(s, <<".","h","e","i","c">>)
         \/ endsWith(s, <<".","a","a","e">>)
         \/ endsWith(s, <<"t","h","u","m","b","s",".","d","b">>), src)

shouldSkipPath(src) ==
  Call(LAMBDA s :
         \/ includes(s, <<"/", ".", "_">>)
         \/ endsWith(s, <<".","d","s","_","s","t","o","r","e">>)
         \/ endsWith(s, <<".","h","e","i","c">>)
         \/ endsWith(s, <<".","a","a","e">>)
         \/ endsWith(s, <<"t","h","u","m","b","s",".","d","b">>), toLowerCase(src))

IsDigit(c) == c \in Range(Digits)

IsSep(c) == c \in {"-", "_", " "}

\* the number of digits s has from position i on
DigitRun(s, i) ==
  Cardinality({k \in i..Len(s) : \A j \in i..k : IsDigit(s[j])})

\* s.replace(/^whatsapp[-_ ]image[-_ ]/i, "")
StripWhatsApp(s) ==
  Call(LAMBDA v :
         Call(LAMBDA l :
                IF /\ startsWith(l, <<"w","h","a","t","s","a","p","p">>)
                   /\ Len(v) >= 15
                   /\ IsSep(v[9])
                   /\ MatchAt(l, <<"i","m","a","g","e">>, 10)
                   /\ IsSep(v[15])
                THEN Drop(v, 15)
                ELSE v, toLowerCase(v)), s)

\* /[-_ ]at[-_ ]\d{6,}/i matches s at position i
AtStampAt(s, i) ==
  /\ i + 3 <= Len(s)
  /\ IsSep(s[i])
  /\ s[i + 1] \in {"a", "A"} /\ s[i + 2] \in {"t", "T"}
  /\ IsSep(s[i + 3])
  /\ DigitRun(s, i + 4) >= 6

\* s.replace(/[-_ ]at[-_ ]\d{6,}/i, ""): the leftmost match, digits taken greedily
StripAtStamp(s) ==
  Call(LAMBDA v :
         Call(LAMBDA at :
                IF at = {} THEN v
                ELSE Call(LAMBDA i : SubSeq(v, 1, i - 1) \o Drop(v, i + 3 + DigitRun(v, i + 4)),
                          CHOOSE k \in at : \A j \in at : k <= j),
              {i \in 1..Len(v) : AtStampAt(v, i)}), s)

MediaExtensions ==
  { <<".","j","p","g">>, <<".","j","p","e","g">>, <<".","p","n","g">>,
    <<".","w","e","b","p">>, <<".","g","i","f">>, <<".","m","p","4">>,
    <<".","m","o","v">>, <<".","m","k","v">>, <<".","a","v","i">> }

\* s.replace(/\.(jpe?g|png|webp|gif|mp4|mov|mkv|avi)$/i, "")
StripExtension(s) ==
  Call(LAMBDA v :
         Call(LAMBDA exts :
                IF exts = {} THEN v
                ELSE SubSeq(v, 1, Len(v) - Len(CHOOSE e \in exts : TRUE)),
              {e \in MediaExtensions : endsWith(toLowerCase(v), e)}), s)

\* s.replace(/[-_]+/g, " ")
CollapseDashes(s) ==
  Call(LAMBDA v :
         Concat([i \in 1..Len(v) |->
                   IF v[i] \in {"-", "_"}
                   THEN IF i + 1 <= Len(v) /\ v[i + 1] \in {"-", "_"}
                        THEN <<>> ELSE <<" ">>
                   ELSE <<v[i]>>]), s)

cleanFileName(s) ==
  trim(CollapseDashes(StripExtension(StripAtStamp(StripWhatsApp(
    IF Truthy(s) THEN s ELSE <<>>)))))

\* safeDecode that decodes nothing
safeDecodeRaw(s) == Call(LAMBDA v : v, s)

safeDecode(s) ==
  Call2(LAMBDA v, d : IF d = Throws THEN v ELSE d, s, decodeURIComponent(s))

\* deriveCategoryFromPath without the test of the sentinel: any category the
\* item carries is kept
deriveCategoryKeepAny(it) ==
  IF Truthy(it.category) THEN it.category
  ELSE Call(LAMBDA hay :
              Call(LAMBDA hits :
                     IF hits = {} THEN None
                     ELSE ZIP_CATEGORIES[CHOOSE k \in hits : \A j \in hits : k <= j],
                   {k \in 1..Len(ZIP_CATEGORIES) : includes(hay, ZIP_CATEGORIES[k])}),
            safeDecode(OrElse(it.folder, <<>>) \o <<" ">> \o OrElse(it.src, <<>>)))

\* it.category, or the first label of ZIP_CATEGORIES the decoded
\* `${folder ?? ""} ${src ?? ""}` includes, or undefined
deriveCategoryFromPath(it) ==
  IF Truthy(it.category) /\ it.category # Sentinel THEN it.category
  ELSE Call(LAMBDA hay :
              Call(LAMBDA hits :
                     IF hits = {} THEN None
                     ELSE ZIP_CATEGORIES[CHOOSE k \in hits : \A j \in hits : k <= j],
                   {k \in 1..Len(ZIP_CATEGORIES) : includes(hay, ZIP_CATEGORIES[k])}),
            safeDecode(OrElse(it.folder, <<>>) \o <<" ">> \o OrElse(it.src, <<>>)))

\* buildDisplayName without its first branch: the category alone wins over
\* the pair of category and colour
buildDisplayNameCategoryOnly(it) ==
  Call2(LAMBDA color, cat :
          IF Truthy(cat) THEN cat
          ELSE IF Truthy(color) THEN color
          ELSE cleanFileName(it.name),
        IF Present(it.colorName) THEN trim(it.colorName) ELSE None,
        it.category)

buildDisplayName(it) ==
  Call2(LAMBDA color, cat :
          IF Truthy(cat) /\ Truthy(color) THEN cat \o <<" ">> \o color
          ELSE IF Truthy(cat) THEN cat
          ELSE IF Truthy(color) THEN color
          ELSE cleanFileName(it.name),
        IF Present(it.colorName) THEN trim(it.colorName) ELSE None,
        it.category)

\* /\/(20\d{2})\/(\d{2})\// matches s at position i
YearMonthAt(s, i) ==
  /\ i + 8 <= Len(s)
  /\ s[i] = "/" /\ s[i + 1] = "2" /\ s[i + 2] = "0"
  /\ IsDigit(s[i + 3]) /\ IsDigit(s[i + 4])
  /\ s[i + 5] = "/"
  /\ IsDigit(s[i + 6]) /\ IsDigit(s[i + 7])
  /\ s[i + 8] = "/"

\* encodedSrc.match(/\/(20\d{2})\/(\d{2})\//): <<m[1], m[2]>> of the leftmost
\* match, or <<>> for null
MatchYearMonth(s) ==
  Call(LAMBDA at :
         IF at = {} THEN <<>>
         ELSE Call(LAMBDA i : <<SubSeq(s, i + 1, i + 4), SubSeq(s, i + 6, i + 7)>>,
                   CHOOSE k \in at : \A j \in at : k <= j),
       {i \in 1..Len(s) : YearMonthAt(s, i)})

\* !v || v.startsWith?.("unknown")
UnknownOrMissing(v) ==
  ~Truthy(v) \/ startsWith(v, <<"u","n","k","n","o","w","n">>)

\* the callback of arr.map in normalizeItems, for an item whose src is a string
NormalizeOne(it) ==
  Call(LAMBDA encodedSrc :
         Call2(LAMBDA m, category :
                 [it EXCEPT
                    !.src = encodedSrc,
                    !.year = IF UnknownOrMissing(it.year) /\ m # <<>> THEN m[1] ELSE it.year,
                    !.month = IF UnknownOrMissing(it.month) /\ m # <<>> THEN m[2] ELSE it.month,
                    !.category = category,
                    !.displayName = buildDisplayName([it EXCEPT !.src = encodedSrc,
                                                                !.category = category])],
               MatchYearMonth(encodedSrc),
               deriveCategoryFromPath([it EXCEPT !.src = encodedSrc])),
       normalizeUrlPath(it.src))

\* the result of a call that ended with a TypeError
Threw == <<[exception |-> "TypeError"]>>

\* the callback of .filter in normalizeItems
KeepItem(m) == isNonEmpty(m.src) /\ ~shouldSkipPath(m.src)

\* normalizeItems(arr) for an array arr: encodedSrc.match throws on an item
\* whose src is undefined, because normalizeUrlPath returns it as it is
normalizeItems(arr) ==
  Call(LAMBDA a :
         IF \E i \in 1..Len(a) : ~Present(a[i].src) THEN Threw
         ELSE SelectSeq([i \in 1..Len(a) |-> NormalizeOne(a[i])], KeepItem), arr)

(***************************************************************************)
(* CSV helpers (fallback)                                                  *)
(***************************************************************************)
\* text.replace(/^\uFEFF/, "")
stripBOM(text) ==
  Call(LAMBDA t : IF Len(t) > 0 /\ t[1] = "U+FEFF" THEN Tail(t) ELSE t, text)

\* text.replace(/\r\n/g, "\n")
NormalizeNewlines(text) ==
  Call(LAMBDA t :
         Concat([i \in 1..Len(t) |->
                   IF t[i] = "\r" /\ i + 1 <= Len(t) /\ t[i + 1] = "\n"
                   THEN <<>> ELSE <<t[i]>>]), text)

\* one turn of the loop of parseCSV, on the locals i (1-based), cur, row,
\* rows and inQuotes
StepCSV(st, text) ==
  LET ch == text[st.i]
      nextIsQuote == st.i + 1 <= Len(text) /\ text[st.i + 1] = "\""
  IN IF st.inQuotes
     THEN IF ch = "\"" /\ nextIsQuote
            THEN [st EXCEPT !.cur = Append(st.cur, "\""), !.i = st.i + 2]
          ELSE IF ch = "\""
            THEN [st EXCEPT !.inQuotes = FALSE, !.i = st.i + 1]
          ELSE [st EXCEPT !.cur = Append(st.cur, ch), !.i = st.i + 1]
     ELSE IF ch = "\""
            THEN [st EXCEPT !.inQuotes = TRUE, !.i = st.i + 1]
          ELSE IF ch = ","
            THEN [st EXCEPT !.row = Append(st.row, st.cur), !.cur = <<>>, !.i = st.i + 1]
          ELSE IF ch = "\n"
            THEN [st EXCEPT !.rows = Append(st.rows, Append(st.row, st.cur)),
                            !.row = <<>>, !.cur = <<>>, !.i = st.i + 1]
          ELSE [st EXCEPT !.cur = Append(st.cur, ch), !.i = st.i + 1]

\* at most n turns of the loop, computed by halves
RECURSIVE LoopCSV(_, _, _)
LoopCSV(st, text, n) ==
  IF n = 0 \/ st.i > Len(text) THEN st
  ELSE IF n = 1 THEN StepCSV(st, text)
  ELSE Call(LAMBDA mid : LoopCSV(mid, text, n - (n \div 2)),
            LoopCSV(st, text, n \div 2))

\* the loop of parseCSV and the push after it
ScanCSV(text) ==
  Call(LAMBDA st :
         IF Len(st.cur) > 0 \/ Len(st.row) > 0
         THEN Append(st.rows, Append(st.row, st.cur))
         ELSE st.rows,
       Call(LAMBDA t : LoopCSV([i |-> 1, cur |-> <<>>, row |-> <<>>, rows |-> <<>>,
                                inQuotes |-> FALSE], t, Len(t)), text))

KeepRow(r) == Len(r) > 0 /\ ~(Len(r) = 1 /\ r[1] = <<>>)

parseCSV(text) ==
  SelectSeq(ScanCSV(NormalizeNewlines(stripBOM(text))), KeepRow)

\* one RowObj: a function from the header names to the trimmed cells; of two
\* equal headers the later one is the one assigned last
RowObject(headers, r) ==
  [h \in Range(headers) |->
     Call(LAMBDA idx : IF idx <= Len(r) THEN trim(r[idx]) ELSE <<>>,
          CHOOSE k \in 1..Len(headers) :
            headers[k] = h /\ \A j \in (k + 1)..Len(headers) : headers[j] # h)]

csvToObjects(text) ==
  Call(LAMBDA rows :
         IF Len(rows) = 0 THEN <<>>
         ELSE Call(LAMBDA headers :
                     [k \in 1..(Len(rows) - 1) |-> RowObject(headers, rows[k + 1])],
                   [k \in 1..Len(rows[1]) |-> trim(rows[1][k])]),
       parseCSV(text))

\* o.key: undefined when the manifest has no such column
Field(o, key) == IF key \in DOMAIN o THEN o[key] ELSE None

(***************************************************************************)
(* Numbers: an id is a natural number, NaN or undefined                    *)
(***************************************************************************)
NaN == 0 - 1

NoId == 0 - 2

RECURSIVE Pow10(_)
Pow10(n) == IF n = 0 THEN 1 ELSE 10 * Pow10(n - 1)

\* the value of a decimal numeral
RECURSIVE SumDigits(_, _)
SumDigits(s, k) ==
  IF k > Len(s) THEN 0
  ELSE ((Code(s[k]) - 48) * Pow10(Len(s) - k)) + SumDigits(s, k + 1)

\* Number(s) for a string: 0 for white space only, the value of a decimal
\* numeral, NaN for any other text of the model
NumberOf(s) ==
  Call(LAMBDA t :
         IF Len(t) = 0 THEN 0
         ELSE IF \A i \in 1..Len(t) : IsDigit(t[i]) THEN SumDigits(t, 1)
         ELSE NaN, trim(s))

\* `${n}` for a number
RECURSIVE NumberToString(_)
NumberToString(n) ==
  IF n = NaN THEN <<"N", "a", "N">>
  ELSE IF n < 10 THEN <<Digits[n + 1]>>
  ELSE NumberToString(n \div 10) \o <<Digits[(n % 10) + 1]>>

(***************************************************************************)
(* The facets and the filtered view (useMemo of CilinGallery)              *)
(***************************************************************************)
\* a < b in the order of Array.prototype.sort without a comparator: by
\* UTF-16 code units
LexLess(a, b) ==
  \E k \in 1..Len(b) :
    /\ k <= Len(a) + 1
    /\ \A j \in 1..(k - 1) : a[j] = b[j]
    /\ k = Len(a) + 1 \/ Code(a[k]) < Code(b[k])

\* Array.from(set).sort()
SortedStrings(set) ==
  Call(LAMBDA S :
         [k \in 1..Cardinality(S) |->
            CHOOSE x \in S : Cardinality({y \in S : LexLess(y, x)}) = k - 1], set)

\* Array.from(new Set(s)): the values in the order of their first insertion
InsertionOrder(s) ==
  Call(LAMBDA v : Pick(v, {i \in 1..Len(v) : \A j \in 1..(i - 1) : v[j] # v[i]}), s)

\* CAT_ORDER.indexOf(c), 0-based, -1 when c is not in the list
CatIndex(c) ==
  IF c \in Range(ZIP_CATEGORIES) THEN IndexIn(ZIP_CATEGORIES, c) - 1 ELSE 0 - 1

\* s.sort((a, b) => CAT_ORDER.indexOf(a) - CAT_ORDER.indexOf(b)): stable
SortByCatIndex(s) ==
  Call(LAMBDA v :
         LET Before(i, j) ==
               \/ CatIndex(v[i]) < CatIndex(v[j])
               \/ CatIndex(v[i]) = CatIndex(v[j]) /\ i < j
         IN [k \in 1..Len(v) |->
               v[CHOOSE i \in 1..Len(v) :
                   Cardinality({j \in 1..Len(v) : Before(j, i)}) = k - 1]], s)

\* the tags of one item without the test t !== sentinel
ItemTagsAll(it) == splitTags(it.tags)

ItemTags(it) == SelectSeq(splitTags(it.tags), LAMBDA t : t # Sentinel)

unique(its) ==
  Call(LAMBDA v :
         [tags |-> SortedStrings(UNION {Range(ItemTags(v[i])) : i \in 1..Len(v)}),
          colors |-> SortedStrings({v[i].colorName :
                                      i \in {k \in 1..Len(v) : isNonEmpty(v[k].colorName)}}),
          categories |->
            SortByCatIndex(InsertionOrder(
              Call(LAMBDA hasCat : [i \in 1..Len(hasCat) |-> hasCat[i].category],
                   SelectSeq(v, LAMBDA it : isNonEmpty(it.category) /\ it.category # Sentinel))))],
       its)

\* `${it.rid ?? it.id ?? ""}`
titleText(it) ==
  IF Present(it.rid) THEN it.rid
  ELSE IF it.id = NoId THEN <<>>
  ELSE NumberToString(it.id)

\* `${it.category ?? ""} ${it.colorName ?? ""} ${it.name ?? ""} ${it.displayName ?? ""}`
extraText(it) ==
  OrElse(it.category, <<>>) \o <<" ">> \o OrElse(it.colorName, <<>>) \o <<" ">>
    \o OrElse(it.name, <<>>) \o <<" ">> \o OrElse(it.displayName, <<>>)

nameHit(it, query) ==
  Call(LAMBDA qq : Len(qq) = 0 \/ includes(titleText(it) \o <<" ">> \o extraText(it), qq),
       trim(query))

\* tagHit without the test of activeTags.length
tagHitSome(it, selTags) ==
  Call(LAMBDA tags :
         \E k \in 1..Len(selTags) :
           selTags[k] \in Range(tags) \/ it.colorName = selTags[k],
       splitTags(it.tags))

\* tagHit comparing the colour only, not the tags of the item
tagHitColorOnly(it, selTags) ==
  IF Len(selTags) > 0
  THEN \E k \in 1..Len(selTags) : it.colorName = selTags[k]
  ELSE TRUE

tagHit(it, selTags) ==
  IF Len(selTags) > 0
  THEN Call(LAMBDA tags :
              \E k \in 1..Len(selTags) :
                selTags[k] \in Range(tags) \/ it.colorName = selTags[k],
            splitTags(it.tags))
  ELSE TRUE

\* catHit without the test of activeCategories.length
catHitSelected(it, selCats) == OrElse(it.category, <<>>) \in Range(selCats)

catHit(it, selCats) ==
  IF Len(selCats) > 0 THEN OrElse(it.category, <<>>) \in Range(selCats) ELSE TRUE

\* the callback of items.filter with nameHit || tagHit in place of
\* nameHit && tagHit
ItemShownEither(it, query, selTags, selCats) ==
  (nameHit(it, query) \/ tagHit(it, selTags)) /\ catHit(it, selCats)

ItemShown(it, query, selTags, selCats) ==
  nameHit(it, query) /\ tagHit(it, selTags) /\ catHit(it, selCats)

filteredOf(its, query, selTags, selCats) ==
  SelectSeq(its, LAMBDA it : ItemShown(it, query, selTags, selCats))

\* the two memoised values of the current render
filtered == filteredOf(items, q, activeTags, activeCategories)

facets == unique(items)

\* filtered.length === 0: the empty-state message is rendered
emptyState == Len(filtered) = 0

\* toggle that appends the value whether the list holds it or not
toggleAppend(prev, value) == Append(prev, value)

\* prev.includes(value) ? prev.filter(x => x !== value) : [...prev, value]
toggle(prev, value) ==
  IF value \in Range(prev) THEN SelectSeq(prev, LAMBDA x : x # value)
  ELSE Append(prev, value)

(***************************************************************************)
(* Inputs: the manifests the two resources may deliver                     *)
(***************************************************************************)
\* the longest JSON manifest a response delivers
MaxManifestLen == 3

\* the longest raw list handed to normalizeItems on its own
MaxListLen == 3

\* a raw item none of whose fields is given
Blank ==
  [id |-> NoId, rid |-> None, name |-> None, displayName |-> None,
   category |-> None, type |-> "image", src |-> None, folder |-> None,
   tags |-> None, colorName |-> None, year |-> None, month |-> None]

Red == <<"r", "e", "d">>

TagX == <<"x">>

\* matches the query "ab" by its name, carries no tag
ItemA ==
  [Blank EXCEPT !.name = <<"a","b",".","j","p","g">>,
                !.src = <<"/","m","/","a",".","j","p","g">>,
                !.category = ZIP_CATEGORIES[3]]

\* carries the tag x and a colour, its src has a space
ItemB ==
  [Blank EXCEPT !.name = <<"c","d",".","p","n","g">>,
                !.src = <<"/","m","/","c"," ","d",".","p","n","g">>,
                !.type = "video",
                !.tags = <<"x">>,
                !.colorName = Red,
                !.category = ZIP_CATEGORIES[1]]

\* matches the query by its name and carries the tag x (and the sentinel tag)
ItemC ==
  [Blank EXCEPT !.name = <<"a","b">>,
                !.rid = <<"R","7">>,
                !.src = <<"/","m","/","e",".","j","p","g">>,
                !.tags = <<" ","x"," ",",">> \o Sentinel]

\* an OS metadata file
ItemJ ==
  [Blank EXCEPT !.name = <<".","D","S","_","S","t","o","r","e">>,
                !.src = <<"/","m","/",".","D","S","_","S","t","o","r","e">>,
                !.tags = <<"j">>]

\* an item with no src
ItemU == [Blank EXCEPT !.name = <<"u">>, !.tags = <<"u">>]

PageItems == <<ItemA, ItemB, ItemC, ItemJ, ItemU>>

\* the lists of at most n items of a catalogue, each item with its 1-based
\* position as id
ListsOver(catalogue, n) ==
  UNION {{[i \in 1..len |-> [catalogue[f[i]] EXCEPT !.id = i]] :
            f \in [1..len -> 1..Len(catalogue)]} : len \in 0..n}

Manifests == ListsOver(PageItems, MaxManifestLen)

\* what r.json() may resolve to
JsArray(rows) == [t |-> "array", rows |-> rows]

JsNull == [t |-> "null"]

JsObject == [t |-> "object"]

JsString == [t |-> "string"]

JsonValues == {JsNull, JsObject, JsString} \cup {JsArray(m) : m \in Manifests}

\* how a fetch and the reading of its body may end
NetworkError == [kind |-> "neterr"]

NotOk == [kind |-> "status"]

BadBody == [kind |-> "badbody"]

NoResponse == [kind |-> "none"]

JsonResponses ==
  {NetworkError, NotOk, BadBody} \cup {[kind |-> "value", value |-> v] : v \in JsonValues}

\* the names of the columns that load reads of a CSV row
Column ==
  [id |-> <<"i","d">>,
   rid |-> <<"r","i","d">>,
   name |-> <<"n","a","m","e">>,
   displayName |-> <<"d","i","s","p","l","a","y","N","a","m","e">>,
   category |-> <<"c","a","t","e","g","o","r","y">>,
   type |-> <<"t","y","p","e">>,
   src |-> <<"s","r","c">>,
   folder |-> <<"f","o","l","d","e","r">>,
   tags |-> <<"t","a","g","s">>,
   colorName |-> <<"c","o","l","o","r","N","a","m","e">>,
   year |-> <<"y","e","a","r">>,
   month |-> <<"m","o","n","t","h">>]

Line(cells) == join(cells, <<",">>) \o <<"\n">>

\* id,name,src,tags,colorName with a numeric id, an empty id cell, a quoted
\* cell that holds a comma, and a CRLF line end
CsvTwoRows ==
  Line(<<Column.id, Column.name, Column.src, Column.tags, Column.colorName>>)
    \o Line(<<<<"7">>, <<"a","b">>, <<"/","m","/","a",".","j","p","g">>, <<"x">>, <<>>>>)
    \o <<",", "c", "d", ",", "\"", "/", "m", "/", "c", ",", "d", ".", "p", "n", "g", "\"",
         ",", "\"", "x", "\"", ",", "r", "e", "d", "\r", "\n">>

\* a byte-order mark, no id column; a sentinel category, a junk row, a blank
\* line and a short row with an empty src cell
CsvNoId ==
  <<"U+FEFF">> \o Line(<<Column.src, Column.category, Column.type>>)
    \o Line(<<<<"/","m","/","a",".","j","p","g">>, Sentinel, <<"v","i","d","e","o">>>>)
    \o Line(<<<<"/","m","/",".","D","S","_","S","t","o","r","e">>, <<>>, <<>>>>)
    \o <<"\n">>
    \o Line(<<<<>>, ZIP_CATEGORIES[1]>>)

CsvHeaderOnly == Line(<<Column.id, Column.src>>)

CsvTexts == {<<>>, CsvHeaderOnly, CsvTwoRows, CsvNoId}

CsvResponses ==
  {NetworkError, NotOk, BadBody} \cup {[kind |-> "text", text |-> t] : t \in CsvTexts}

\* what the user may type in the search box
Queries == {<<>>, <<"a","b">>, <<" ","a","b"," ">>}

MANIFEST_URL == "/media_manifest_categorized_final.json"

MANIFEST_CSV_URL == "/media_manifest_categorized_final.csv"

(***************************************************************************)
(* Inputs: the raw lists handed to normalizeItems on its own               *)
(***************************************************************************)
PlainSrc == <<"/","m","/","a",".","j","p","g">>

SpaceSrc == <<"/","m","/","a"," ","b",".","j","p","g">>

DsStoreSrc == <<"/","m","/",".","D","S","_","S","t","o","r","e">>

ForkSrc == <<"/","m","/",".","_","h",".","j","p","g">>

HeicSrc == <<"/","m","/","x",".","H","E","I","C">>

BlankSrc == <<" ">>

\* the src values of the items of the longer lists
ListSrcs == <<PlainSrc, SpaceSrc, DsStoreSrc, ForkSrc, HeicSrc, <<>>, BlankSrc, None>>

Srcs ==
  Range(ListSrcs) \cup
  { <<"m","/","T","h","u","m","b","s",".","d","b">>,
    <<"x",".","a","a","e">>,
    <<".","_","h",".","j","p","g">>,
    <<"h","t","t","p","s",":","/","/","h","/","a"," ","b",".","j","p","g">>,
    <<"H","T","T","P",":","/","/","h","/","a"," ","b",".","j","p","g">>,
    <<"/","/","m","/","/","a"," ","b",".","j","p","g">>,
    <<"m","/","a","+","b",".","j","p","g">>,
    <<"/","2","0","2","4","/","0","5","/">> \o ZIP_CATEGORIES[1] \o <<"/","c",".","p","n","g">> }

\* the lists of one item, over the fields the normaliser reads
SingleLists ==
  LET Categories == {None, <<>>, Sentinel, ZIP_CATEGORIES[3], <<"x","y">>}
      ColorNames == {None, <<" ">>, <<" ","r","e","d">>, Sentinel}
      Names ==
        { None,
        <<".","j","p","g">>,
        <<"a","_","b",".","p","n","g">>,
        Sentinel \o <<".","j","p","g">>,
        <<"W","h","a","t","s","A","p","p"," ","I","m","a","g","e"," ","0","1",
          "_","a","t","_","1","2","3","4","5","6","7",".","J","P","G">> }
      Folders ==
        { None,
        ZIP_CATEGORIES[2] \o <<"/","s","u","b">>,
        <<"%","/">> \o ZIP_CATEGORIES[4] }
      Years == {None, <<>>, <<"u","n","k","n","o","w","n">>, <<"2","0","2","3">>}
      Months == {None, <<"u","n","k","n","o","w","n","_","m">>, <<"0","7">>}
  IN { <<[Blank EXCEPT !.id = 1, !.src = s, !.category = c, !.colorName = col,
                       !.name = n, !.folder = f]>> :
         s \in Srcs, c \in Categories, col \in ColorNames, n \in Names, f \in Folders }
     \cup
     { <<[Blank EXCEPT !.id = 1, !.src = s, !.year = y, !.month = m]>> :
         s \in Srcs, y \in Years, m \in Months }

ListItems ==
  [k \in 1..Len(ListSrcs) |->
     [Blank EXCEPT !.src = ListSrcs[k], !.name = <<"n",".","j","p","g">>]]

\* a .DS_Store path, a resource fork, a .heic path and one legitimate .jpg
JunkExample ==
  [i \in 1..4 |->
     [Blank EXCEPT !.id = i, !.src = <<DsStoreSrc, ForkSrc, HeicSrc, PlainSrc>>[i]]]

RawLists == SingleLists \cup ListsOver(ListItems, MaxListLen) \cup {JunkExample}

\* the value of once and twice before the call
NotRun == <<[pending |-> TRUE]>>

(***************************************************************************)
(* The page: load() of the mount effect, and the event handlers            *)
(***************************************************************************)
\* rows.map((o, idx) => ({...})) of load; k is idx + 1
RowToItem(o, k) ==
  [id |-> IF Present(Field(o, Column.id)) THEN NumberOf(Field(o, Column.id)) ELSE k,
   rid |-> IF Truthy(Field(o, Column.rid)) THEN Field(o, Column.rid) ELSE None,
   name |-> OrElse(Field(o, Column.name), <<>>),
   displayName |-> Field(o, Column.displayName),
   category |-> IF Truthy(Field(o, Column.category)) THEN Field(o, Column.category) ELSE None,
   type |-> IF Field(o, Column.type) = <<"v","i","d","e","o">> THEN "video" ELSE "image",
   src |-> OrElse(Field(o, Column.src), <<>>),
   folder |-> Field(o, Column.folder),
   tags |-> Field(o, Column.tags),
   colorName |-> Field(o, Column.colorName),
   year |-> Field(o, Column.year),
   month |-> Field(o, Column.month)]

RowsToItems(text) ==
  Call(LAMBDA rows : [k \in 1..Len(rows) |-> RowToItem(rows[k], k)], csvToObjects(text))

\* the CSV branch of load taken whatever the JSON source gave
NoLengthAlways(d) == d = d

\* !data?.length
NoLength(d) ==
  \/ d.t \in {"null", "object"}
  \/ d.t = "array" /\ Len(d.rows) = 0

\* normalizeItems(data) without the fallback of (data || [])
NormalizeDataNoFallback(d) ==
  IF d.t = "array" THEN normalizeItems(d.rows) ELSE Threw

\* normalizeItems((data || [])): arr.map is no function of an object or a string
NormalizeData(d) ==
  IF d.t = "null" THEN normalizeItems(<<>>)
  ELSE IF d.t = "array" THEN normalizeItems(d.rows)
  ELSE Threw

\* the last statement of load: setItems(normalizeItems(...)), or the rejection
\* of the promise of load when normalizeItems throws
Publish(d) ==
  \E r \in {NormalizeData(d)} :
    IF r = Threw
    THEN pc' = "rejected" /\ UNCHANGED items
    ELSE pc' = "done" /\ items' = r

Init ==
  /\ pc = "mounted"
  /\ fetches = <<>>
  /\ jsonResp = NoResponse
  /\ csvResp = NoResponse
  /\ data = JsArray(<<>>)
  /\ items = <<>>
  /\ q = <<>>
  /\ activeTags = <<>>
  /\ activeCategories = <<>>
  /\ quick = <<>>
  /\ raw = <<>>
  /\ once = NotRun
  /\ twice = NotRun
  /\ imgs = <<>>
  /\ clicks = [tags |-> {}, categories |-> {}, reset |-> FALSE]

\* the effect runs load(), which suspends at fetch(MANIFEST_URL)
LoadStart ==
  /\ pc = "mounted"
  /\ pc' = "json"
  /\ fetches' = Append(fetches, MANIFEST_URL)
  /\ UNCHANGED <<jsonResp, csvResp, data, items, q, activeTags, activeCategories, quick>>
  /\ UNCHANGED <<normVars, domVars, clicks>>

\* the JSON fetch and r.json() settle; load goes on to the CSV fetch or to
\* its last statement
JsonSettle(resp) ==
  /\ pc = "json"
  /\ jsonResp' = resp
  /\ \E d \in {IF resp.kind = "value" THEN resp.value ELSE data} :
        /\ data' = d
        /\ IF NoLength(d)
           THEN /\ pc' = "csv"
                /\ fetches' = Append(fetches, MANIFEST_CSV_URL)
                /\ UNCHANGED items
           ELSE /\ Publish(d)
                /\ UNCHANGED fetches
  /\ UNCHANGED <<csvResp, q, activeTags, activeCategories, quick>>
  /\ UNCHANGED <<normVars, domVars, clicks>>

\* the CSV fetch and rcsv.text() settle; load ends
CsvSettle(resp) ==
  /\ pc = "csv"
  /\ csvResp' = resp
  /\ \E d \in {IF resp.kind = "text" THEN JsArray(RowsToItems(resp.text)) ELSE data} :
        data' = d /\ Publish(d)
  /\ UNCHANGED <<fetches, jsonResp, q, activeTags, activeCategories, quick>>
  /\ UNCHANGED <<normVars, domVars, clicks>>

\* onChange of the search box: setQ
Type(text) ==
  /\ q' = text
  /\ q # text
  /\ UNCHANGED <<pc, fetches, jsonResp, csvResp, data, items, activeTags, activeCategories, quick>>
  /\ clicks' = [clicks EXCEPT !.reset = FALSE]
  /\ UNCHANGED <<normVars, domVars>>

\* a click on a chip of the tags group or of the colours group
ToggleTag(value) ==
  /\ value \in Range(facets.tags) \cup Range(facets.colors)
  /\ activeTags' = toggle(activeTags, value)
  /\ UNCHANGED <<pc, fetches, jsonResp, csvResp, data, items, q, activeCategories, quick>>
  /\ clicks' = [clicks EXCEPT !.tags = (@ \ {value}) \cup ({value} \ @),
                               !.reset = FALSE]
  /\ UNCHANGED <<normVars, domVars>>

\* a click on a chip of the categories group
ToggleCategory(value) ==
  /\ value \in Range(facets.categories)
  /\ activeCategories' = toggle(activeCategories, value)
  /\ UNCHANGED <<pc, fetches, jsonResp, csvResp, data, items, q, activeTags, quick>>
  /\ clicks' = [clicks EXCEPT !.categories = (@ \ {value}) \cup ({value} \ @),
                               !.reset = FALSE]
  /\ UNCHANGED <<normVars, domVars>>

\* the reset button
Reset ==
  /\ q' = <<>>
  /\ activeTags' = <<>>
  /\ activeCategories' = <<>>
  /\ UNCHANGED <<pc, fetches, jsonResp, csvResp, data, items, quick>>
  /\ clicks' = [tags |-> {}, categories |-> {}, reset |-> TRUE]
  /\ UNCHANGED <<normVars, domVars>>

\* the quick-view button of a card: setQuick(it); quick is <<it>>, or <<>>
\* for null
OpenQuick(it) ==
  /\ it \in Range(filtered)
  /\ quick' = <<it>>
  /\ UNCHANGED <<pc, fetches, jsonResp, csvResp, data, items, q, activeTags, activeCategories>>
  /\ UNCHANGED <<normVars, domVars, clicks>>

CloseQuick ==
  /\ quick # <<>>
  /\ quick' = <<>>
  /\ UNCHANGED <<pc, fetches, jsonResp, csvResp, data, items, q, activeTags, activeCategories>>
  /\ UNCHANGED <<normVars, domVars, clicks>>

Next ==
  \/ LoadStart
  \/ \E resp \in JsonResponses : JsonSettle(resp)
  \/ \E resp \in CsvResponses : CsvSettle(resp)
  \/ \E text \in Queries : Type(text)
  \/ \E value \in Range(facets.tags) \cup Range(facets.colors) : ToggleTag(value)
  \/ \E value \in Range(facets.categories) : ToggleCategory(value)
  \/ Reset
  \/ \E it \in Range(items) : OpenQuick(it)
  \/ CloseQuick

Spec == Init /\ [][Next]_vars

(***************************************************************************)
(* The normaliser on its own: normalizeItems applied to a raw list, and    *)
(* applied again to its own result                                         *)
(***************************************************************************)
NormInit ==
  /\ pc = "mounted"
  /\ fetches = <<>>
  /\ jsonResp = NoResponse
  /\ csvResp = NoResponse
  /\ data = JsArray(<<>>)
  /\ items = <<>>
  /\ q = <<>>
  /\ activeTags = <<>>
  /\ activeCategories = <<>>
  /\ quick = <<>>
  /\ raw \in RawLists
  /\ once = NotRun
  /\ twice = NotRun
  /\ imgs = <<>>
  /\ clicks = [tags |-> {}, categories |-> {}, reset |-> FALSE]

Normalize ==
  /\ once = NotRun
  /\ once' = normalizeItems(raw)
  /\ UNCHANGED <<raw, twice>>
  /\ UNCHANGED <<pageVars, domVars, clicks>>

NormalizeAgain ==
  /\ once # NotRun
  /\ once # Threw
  /\ twice = NotRun
  /\ twice' = normalizeItems(once)
  /\ UNCHANGED <<raw, once>>
  /\ UNCHANGED <<pageVars, domVars, clicks>>

NormNext == Normalize \/ NormalizeAgain

NormSpec == NormInit /\ [][NormNext]_vars

(***************************************************************************)
(* Properties of the page (Spec)                                           *)
(***************************************************************************)

\* C1: the CSV manifest is requested only after the JSON fetch has settled,
\* and only when the JSON source gave no non-empty array; when the JSON
\* response decodes to a non-empty array, that array is the raw item list
\* and the CSV resource is never requested.
C1_CsvOnlyAfterJsonGaveNothing ==
  LET nonEmptyArray ==
        /\ jsonResp.kind = "value"
        /\ jsonResp.value.t = "array"
        /\ Len(jsonResp.value.rows) > 0
      csvAsked == \E i \in 1..Len(fetches) : fetches[i] = MANIFEST_CSV_URL
  IN /\ csvAsked =>
          /\ jsonResp # NoResponse
          /\ ~nonEmptyArray
          /\ fetches = <<MANIFEST_URL, MANIFEST_CSV_URL>>
     /\ ~csvAsked => csvResp = NoResponse
     /\ nonEmptyArray =>
          /\ ~csvAsked
          /\ data = jsonResp.value
          /\ pc \in {"done", "rejected"}
          /\ pc = "done" => items = normalizeItems(jsonResp.value.rows)

\* a load that ended on the items of a non-empty JSON array, with the JSON
\* manifest as its only request
C1_Witness ==
  /\ pc = "done"
  /\ jsonResp.kind = "value"
  /\ jsonResp.value.t = "array"
  /\ Len(jsonResp.value.rows) > 0
  /\ fetches = <<MANIFEST_URL>>
  /\ Len(items) > 0

C3_LoadAlwaysPublishes ==
  (data.t = "array" /\ pc \notin {"mounted", "json", "csv"}) => pc = "done"

\* C5: every item of the working item list has a non-empty src, and its
\* lower-cased src holds no resource-fork marker "/._" and ends with none
\* of ".ds_store", ".heic", ".aae", "thumbs.db".
C5_NoJunkInItems ==
  \A i \in 1..Len(items) :
    LET src == items[i].src
        low == IF Present(src) THEN toLowerCase(src) ELSE <<>>
        ends(suffix) ==
          /\ Len(low) >= Len(suffix)
          /\ SubSeq(low, Len(low) - Len(suffix) + 1, Len(low)) = suffix
    IN /\ Present(src)
       /\ \E k \in 1..Len(src) : src[k] \notin WhiteSpace
       /\ ~\E k \in 1..(Len(low) - 2) : SubSeq(low, k, k + 2) = <<"/", ".", "_">>
       /\ ~ends(<<".","d","s","_","s","t","o","r","e">>)
       /\ ~ends(<<".","h","e","i","c">>)
       /\ ~ends(<<".","a","a","e">>)
       /\ ~ends(<<"t","h","u","m","b","s",".","d","b">>)

\* a load whose raw list held a .DS_Store path next to a legitimate item
C5_Witness ==
  /\ pc = "done"
  /\ data.t = "array"
  /\ \E k \in 1..Len(data.rows) : data.rows[k].src = DsStoreSrc
  /\ Len(items) > 0
  /\ Len(items) < Len(data.rows)

\* C10: the filtered view is the items, in their order, for which all three
\* hold: the trimmed query is empty or occurs, case-sensitively, in the
\* space-joined identifier (rid, else id), category, colorName, name and
\* displayName; no tag is selected or a selected value is one of the item's
\* split tags or equals its colorName; no category is selected or the item's
\* category (the empty string if absent) is selected.
C10_FilteredIsConjunction ==
  LET qq == trim(q)
      str(v) == IF Present(v) THEN v ELSE <<>>
      ident(it) ==
        IF Present(it.rid) THEN it.rid
        ELSE IF it.id = NoId THEN <<>> ELSE NumberToString(it.id)
      hay(it) ==
        ident(it) \o <<" ">> \o str(it.category) \o <<" ">> \o str(it.colorName)
          \o <<" ">> \o str(it.name) \o <<" ">> \o str(it.displayName)
      occurs(h) ==
        \E k \in 0..(Len(h) - Len(qq)) : SubSeq(h, k + 1, k + Len(qq)) = qq
      textOk(it) == qq = <<>> \/ occurs(hay(it))
      tagOk(it) ==
        \/ activeTags = <<>>
        \/ \E k \in 1..Len(activeTags) :
             \/ activeTags[k] \in Range(splitTags(it.tags))
             \/ activeTags[k] = it.colorName
      catOk(it) ==
        \/ activeCategories = <<>>
        \/ str(it.category) \in Range(activeCategories)
      shown == {i \in 1..Len(items) :
                  textOk(items[i]) /\ tagOk(items[i]) /\ catOk(items[i])}
      nth(k) == CHOOSE i \in shown : Cardinality({j \in shown : j < i}) = k - 1
  IN filtered = [k \in 1..Cardinality(shown) |-> items[nth(k)]]

\* three items, the first matching only the query, the second only the
\* selected tag, the third both: the third alone is shown
C10_Witness ==
  /\ pc = "done"
  /\ Len(items) = 3
  /\ trim(q) = <<"a", "b">>
  /\ activeTags = <<TagX>>
  /\ activeCategories = <<>>
  /\ filteredOf(items, q, <<>>, <<>>) = <<items[1], items[3]>>
  /\ filteredOf(items, <<>>, activeTags, <<>>) = <<items[2], items[3]>>
  /\ filtered = <<items[3]>>

(***************************************************************************)
(* Properties of the normaliser (NormSpec). The items of a raw list carry  *)
(* their 1-based position as id, so raw[once[k].id] is the raw item that   *)
(* once[k] was made from.                                                  *)
(***************************************************************************)

\* C4: normalization is idempotent: normalizeItems applied to its own
\* result gives that result again, field for field. (Refuted: the "%" of
\* an encoded src is encoded once more.)
C4_Idempotent == twice # NotRun => twice = once

\* C6: normalizeItems returns the inputs that are no junk, once each and in
\* their order: an input is dropped exactly when its src is empty or only
\* whitespace, holds the resource-fork marker "/._", or ends with
\* ".ds_store", ".heic", ".aae" or "thumbs.db", letter case aside.
\* (Refuted: a src of whitespace is encoded before it is tested, and kept.)
C6_DropsExactlyJunk ==
  (once # NotRun /\ once # Threw) =>
    LET ends(low, suffix) ==
          /\ Len(low) >= Len(suffix)
          /\ SubSeq(low, Len(low) - Len(suffix) + 1, Len(low)) = suffix
        junkPath(low) ==
          \/ \E k \in 1..(Len(low) - 2) : SubSeq(low, k, k + 2) = <<"/", ".", "_">>
          \/ ends(low, <<".","d","s","_","s","t","o","r","e">>)
          \/ ends(low, <<".","h","e","i","c">>)
          \/ ends(low, <<".","a","a","e">>)
          \/ ends(low, <<"t","h","u","m","b","s",".","d","b">>)
        dropped(src) ==
          \/ ~Present(src)
          \/ \A k \in 1..Len(src) : src[k] \in WhiteSpace
          \/ junkPath(toLowerCase(src))
        kept == {i \in 1..Len(raw) : ~dropped(raw[i].src)}
        nth(k) == CHOOSE i \in kept : Cardinality({j \in kept : j < i}) = k - 1
    IN /\ Len(once) = Cardinality(kept)
       /\ \A k \in 1..Len(once) : once[k].id = raw[nth(k)].id

C8_DisplayNameNeverEmpty ==
  (once # NotRun /\ once # Threw) =>
    \A k \in 1..Len(once) :
      LET it == once[k]
          filled(v) == Present(v) /\ v # <<>>
          cat == IF Present(it.category) THEN it.category ELSE <<>>
          color == IF Present(it.colorName) THEN trim(it.colorName) ELSE <<>>
      IN /\ it.displayName =
              IF cat # <<>> /\ color # <<>> THEN cat \o <<" ">> \o color
              ELSE IF cat # <<>> THEN cat
              ELSE IF color # <<>> THEN color
              ELSE cleanFileName(it.name)
         /\ (filled(it.category) \/ filled(it.colorName) \/ filled(it.name))
              => it.displayName # <<>>

\* C8, amended: the displayName of a normalized item is category + " " +
\* trimmed colorName when both are non-empty, else the category, else the
\* trimmed colorName, else the cleaned name; it is non-empty exactly when
\* the normalized category, the trimmed colorName or the cleaned name is.
C8_DisplayNameByPriority ==
  (once # NotRun /\ once # Threw) =>
    \A k \in 1..Len(once) :
      LET it == once[k]
          cat == IF Present(it.category) THEN it.category ELSE <<>>
          color == IF Present(it.colorName) THEN trim(it.colorName) ELSE <<>>
          cleaned == cleanFileName(it.name)
      IN /\ (cat # <<>> /\ color # <<>>) => it.displayName = cat \o <<" ">> \o color
         /\ (cat # <<>> /\ color = <<>>) => it.displayName = cat
         /\ (cat = <<>> /\ color # <<>>) => it.displayName = color
         /\ (cat = <<>> /\ color = <<>>) => it.displayName = cleaned
         /\ it.displayName # <<>> <=> (cat # <<>> \/ color # <<>> \/ cleaned # <<>>)

\* an item with a category, a colorName with a space around it and a name
\* came out named by the category and the trimmed colorName
C8_Witness ==
  /\ once # NotRun
  /\ once # Threw
  /\ \E k \in 1..Len(once) :
       /\ once[k].category = ZIP_CATEGORIES[3]
       /\ once[k].colorName = <<" ", "r", "e", "d">>
       /\ Present(once[k].name)
       /\ once[k].displayName = ZIP_CATEGORIES[3] \o <<" ">> \o Red

\* C9: the displayName of a normalized item never equals the sentinel
\* placeholder. (Refuted: a colorName, or a file name, that is the sentinel
\* becomes the displayName.)
C9_DisplayNameNeverSentinel ==
  (once # NotRun /\ once # Threw) =>
    \A k \in 1..Len(once) : once[k].displayName # Sentinel

\* C11: with an empty query, no selected tag and no selected category the
\* filtered view is the item list itself; for any query and selection it is
\* a subsequence of the item list: items of the list, unaltered, in the
\* order of the list.
C11_FilteredIsSubsequence ==
  /\ (q = <<>> /\ activeTags = <<>> /\ activeCategories = <<>>) => filtered = items
  /\ \E S \in SUBSET (1..Len(items)) :
       LET nth(k) == CHOOSE i \in S : Cardinality({j \in S : j < i}) = k - 1
       IN filtered = [k \in 1..Cardinality(S) |-> items[nth(k)]]

\* three items are loaded and nothing is typed or selected: all three are
\* shown
C11_Witness ==
  /\ pc = "done"
  /\ Len(items) = 3
  /\ q = <<>>
  /\ activeTags = <<>>
  /\ activeCategories = <<>>
  /\ filtered = items

(***************************************************************************)
(* The facet extractor on its own: unique computed of an item list. Here   *)
(* raw is the item list and once holds the value of unique.                 *)
(***************************************************************************)
\* lists of items that differ in category, tags and colorName
FacetLists ==
  ListsOver(
    << [Blank EXCEPT !.src = PlainSrc, !.category = ZIP_CATEGORIES[3],
                     !.tags = <<"b", ",", "a">>, !.colorName = Red],
       [Blank EXCEPT !.src = PlainSrc, !.category = ZIP_CATEGORIES[1],
                     !.tags = <<" ", "a", " ", ",", ",", "B">>,
                     !.colorName = <<"B", "l", "u", "e">>],
       [Blank EXCEPT !.src = PlainSrc, !.category = <<"x", "y">>,
                     !.tags = Sentinel \o <<",", "c">>, !.colorName = <<" ">>],
       [Blank EXCEPT !.src = PlainSrc, !.category = Sentinel],
       [Blank EXCEPT !.src = PlainSrc, !.category = <<>>,
                     !.tags = <<",">>, !.colorName = Red] >>,
    MaxListLen)

\* the page before its effect ran
PageIdle ==
  /\ pc = "mounted"
  /\ fetches = <<>>
  /\ jsonResp = NoResponse
  /\ csvResp = NoResponse
  /\ data = JsArray(<<>>)
  /\ items = <<>>
  /\ q = <<>>
  /\ activeTags = <<>>
  /\ activeCategories = <<>>
  /\ quick = <<>>

FacetInit ==
  /\ PageIdle
  /\ imgs = <<>>
  /\ clicks = [tags |-> {}, categories |-> {}, reset |-> FALSE]
  /\ raw \in FacetLists
  /\ once = NotRun
  /\ twice = NotRun

Extract ==
  /\ once = NotRun
  /\ once' = <<unique(raw)>>
  /\ UNCHANGED <<raw, twice>>
  /\ UNCHANGED <<pageVars, domVars, clicks>>

FacetSpec == FacetInit /\ [][Extract]_vars

\* C12: the category facet holds each non-empty, non-sentinel category of
\* the items exactly once; the categories of the fixed reference list come
\* in the order of that list, whatever the order of insertion, and every
\* category outside the reference list comes after all of them. (Refuted:
\* indexOf gives -1 for a category outside the list, which sorts it first.)
C12_CategoriesInReferenceOrder ==
  once # NotRun =>
    LET cats == once[1].categories
        nonBlank(v) == Present(v) /\ \E k \in 1..Len(v) : v[k] \notin WhiteSpace
        present == {raw[i].category :
                      i \in {j \in 1..Len(raw) :
                               nonBlank(raw[j].category) /\ raw[j].category # Sentinel}}
        ref(c) == \E r \in 1..Len(ZIP_CATEGORIES) : ZIP_CATEGORIES[r] = c
        place(c) == CHOOSE r \in 1..Len(ZIP_CATEGORIES) : ZIP_CATEGORIES[r] = c
    IN /\ {cats[k] : k \in 1..Len(cats)} = present
       /\ Len(cats) = Cardinality(present)
       /\ \A i, j \in 1..Len(cats) :
            (i < j /\ ref(cats[i]) /\ ref(cats[j])) => place(cats[i]) < place(cats[j])
       /\ \A i, j \in 1..Len(cats) :
            (ref(cats[i]) /\ ~ref(cats[j])) => i < j

MaxFieldLen == 3

\* the fields: strings of a letter, the separator, the quote, the line ends
\* and a space
FieldStrings ==
  UNION {[1..n -> {"a", ",", "\"", "\n", "\r", " "}] : n \in 0..MaxFieldLen}

\* a field as the parser expects it quoted: between double quotes, each
\* quote of the field written twice
quoteField(s) ==
  <<"\"">> \o Concat([i \in 1..Len(s) |-> IF s[i] = "\"" THEN <<"\"", "\"">> ELSE <<s[i]>>])
    \o <<"\"">>

\* the columns of the CSV manifest, in their documented order
HeaderRow ==
  << <<"i","d">>,
     <<"r","i","d">>,
     <<"n","a","m","e">>,
     <<"d","i","s","p","l","a","y","N","a","m","e">>,
     <<"c","a","t","e","g","o","r","y">>,
     <<"t","y","p","e">>,
     <<"s","r","c">>,
     <<"o","r","i","g","i","n","a","l","_","e","x","t">>,
     <<"f","o","l","d","e","r">>,
     <<"t","a","g","s">>,
     <<"c","o","l","o","r","N","a","m","e">>,
     <<"c","o","l","o","r","H","e","x">>,
     <<"y","e","a","r">>,
     <<"m","o","n","t","h">> >>

\* rows of a table, a value for each column: plain values; values with
\* blanks around them, a quote and a comma; values with line breaks; no
\* values at all
TableRows ==
  << << <<"1">>, <<"R","7">>, <<"a","b">>, <<>>, <<>>, <<"i","m","a","g","e">>, <<"/","m","/","a",".","j","p","g">>, <<"j","p","g">>, <<>>, <<"x">>, <<"r","e","d">>, <<>>, <<"2","0","2","4">>, <<"0","5">> >>,
     << <<"2">>, <<>>, <<" "," ","a","b"," ">>, <<"x","\"","y">>, <<>>, <<"v","i","d","e","o">>, <<"/","m","/","c"," ","d",".","p","n","g">>, <<>>, <<>>, <<"a",",","b">>, <<" ","r","e","d">>, <<>>, <<>>, <<>> >>,
     << <<"3">>, <<>>, <<"l","1","\n","l","2">>, <<>>, <<>>, <<"i","m","a","g","e">>, <<"/","m","/","e",".","j","p","g">>, <<>>, <<"a","\r","\n","b">>, <<"x","\n">>, <<>>, <<>>, <<>>, <<>> >>,
     << <<>>, <<>>, <<>>, <<>>, <<>>, <<>>, <<>>, <<>>, <<>>, <<>>, <<>>, <<>>, <<>>, <<>> >> >>

\* a table as CSV text: the header line and a line for each row, a cell
\* quoted when it holds a separator, a quote or a line end, lines ended by
\* CR LF
toCSV(rows) ==
  LET cell(v) == IF \E i \in 1..Len(v) : v[i] \in {",", "\"", "\n", "\r"}
                 THEN quoteField(v) ELSE v
      line(r) == join([c \in 1..Len(r) |-> cell(r[c])], <<",">>) \o <<"\r", "\n">>
  IN line(HeaderRow) \o Concat([k \in 1..Len(rows) |-> line(rows[k])])

CsvInit ==
  /\ PageIdle
  /\ imgs = <<>>
  /\ clicks = [tags |-> {}, categories |-> {}, reset |-> FALSE]
  /\ raw \in {[kind |-> "field", value |-> s, text |-> quoteField(s)] : s \in FieldStrings}
              \cup {[kind |-> "table", value |-> t, text |-> toCSV(t)] :
                      t \in UNION {[1..n -> Range(TableRows)] : n \in 0..MaxListLen}}
  /\ once = NotRun
  /\ twice = NotRun

ParseField ==
  /\ raw.kind = "field"
  /\ once = NotRun
  /\ once' = <<[rows |-> parseCSV(raw.text)]>>
  /\ UNCHANGED <<raw, twice>>
  /\ UNCHANGED <<pageVars, domVars, clicks>>

ParseTable ==
  /\ raw.kind = "table"
  /\ once = NotRun
  /\ once' = <<[objects |-> csvToObjects(raw.text)]>>
  /\ UNCHANGED <<raw, twice>>
  /\ UNCHANGED <<pageVars, domVars, clicks>>

CsvSpec == CsvInit /\ [][ParseField \/ ParseTable]_vars

\* C14: for every string s, the text made of s between double quotes, with
\* each quote of s doubled, parses with parseCSV to one row of one field
\* equal to s. (Refuted: a CR LF pair of s comes back as LF, and the empty
\* string gives no row.)
C14_QuotedFieldParsesBack ==
  (raw.kind = "field" /\ once # NotRun) => once[1].rows = << <<raw.value>> >>

\* C15: a table written as CSV under the documented header and read back
\* with csvToObjects gives one record for each row, each field of it equal
\* to the value written. (Refuted: csvToObjects trims every cell, and a
\* CR LF pair of a value comes back as LF.)
C15_TableReadsBack ==
  (raw.kind = "table" /\ once # NotRun) =>
    /\ Len(once[1].objects) = Len(raw.value)
    /\ \A k \in 1..Len(raw.value) :
         \A c \in 1..Len(HeaderRow) :
           once[1].objects[k][HeaderRow[c]] = raw.value[k][c]

(***************************************************************************)
(* Properties of the page (Spec): the rows of the CSV manifest             *)
(***************************************************************************)

\* C16: an item made of a row of the CSV manifest has as id the 1-based
\* position of the row among the data rows when the manifest has no id
\* column or the id cell of the row is empty, and the number written in the
\* id cell when that is a numeral. (Refuted: Number("") is 0, and only an
\* absent column falls back to the position.)
C16_CsvIdFallsBackToPosition ==
  (csvResp.kind = "text" /\ pc = "done") =>
    LET objs == csvToObjects(csvResp.text)
        cell(k) == IF Column.id \in DOMAIN objs[k] THEN objs[k][Column.id] ELSE None
        numeral(v) == v # <<>> /\ \A i \in 1..Len(v) : v[i] \in Range(Digits)
    IN /\ Len(data.rows) = Len(objs)
       /\ \A k \in 1..Len(objs) :
            IF cell(k) = None \/ cell(k) = <<>>
            THEN data.rows[k].id = k
            ELSE numeral(cell(k)) => NumberToString(data.rows[k].id) = cell(k)

(***************************************************************************)
(* The media elements of the cards and their error events. An element is   *)
(* a record of its tag, its src, its dataset.fallback, the number of error *)
(* events it received and the number of times a handler assigned its src.  *)
(***************************************************************************)
MaxCards == 3

MaxErrors == 3

PLACEHOLDER ==
  <<"/","c","i","l","i","n","/","p","l","a","c","e","h","o","l","d","e","r",".","j","p","g">>

\* the element of the card of an item: a <video>, or an <img> with onError
CardMedia(it) ==
  [tag |-> IF it.type = "video" THEN "video" ELSE "img",
   src |-> it.src, fallback |-> None, errors |-> 0, writes |-> 0]

\* the handler without the test of dataset.fallback
onImgErrorAlways(img) ==
  [img EXCEPT !.fallback = <<"1">>, !.src = PLACEHOLDER, !.writes = @ + 1]

\* onImgError, on the element e.currentTarget
onImgError(img) ==
  IF ~Truthy(img.fallback)
  THEN [img EXCEPT !.fallback = <<"1">>, !.src = PLACEHOLDER, !.writes = @ + 1]
  ELSE img

\* the page after a load of a JSON manifest of images and videos, all its
\* cards rendered
ImgInit ==
  /\ \E m \in ListsOver(<<ItemA, ItemB>>, MaxCards) :
       /\ Len(m) > 0
       /\ fetches = <<MANIFEST_URL>>
       /\ jsonResp = [kind |-> "value", value |-> JsArray(m)]
       /\ data = JsArray(m)
       /\ items = normalizeItems(m)
  /\ pc = "done"
  /\ csvResp = NoResponse
  /\ q = <<>>
  /\ activeTags = <<>>
  /\ activeCategories = <<>>
  /\ quick = <<>>
  /\ imgs = [k \in 1..Len(filtered) |-> CardMedia(filtered[k])]
  /\ clicks = [tags |-> {}, categories |-> {}, reset |-> FALSE]
  /\ raw = <<>>
  /\ once = NotRun
  /\ twice = NotRun

\* an error event on the k-th element: its onError handler runs, if it has
\* one
ErrorEvent(k) ==
  /\ imgs[k].errors < MaxErrors
  /\ imgs' = [imgs EXCEPT ![k] =
                [(IF imgs[k].tag = "img" THEN onImgError(imgs[k]) ELSE imgs[k])
                   EXCEPT !.errors = @ + 1]]
  /\ UNCHANGED <<pageVars, normVars, clicks>>

ImgNext == \E k \in 1..Len(imgs) : ErrorEvent(k)

ImgSpec == ImgInit /\ [][ImgNext]_vars

\* C17 as stated: an image or video element that received an error event
\* has the placeholder as its src, assigned on the first error and never
\* again. (Refuted: a <video> has no onError handler and keeps its src.)
C17_AnyElementSwappedOnce ==
  \A k \in 1..Len(imgs) :
    /\ imgs[k].writes <= 1
    /\ imgs[k].errors >= 1 => (imgs[k].src = PLACEHOLDER /\ imgs[k].writes = 1)

\* C17, amended: an <img> element has its own src until its first error
\* event; from then on, whatever error events follow, its src is the
\* placeholder, assigned exactly once, and dataset.fallback is set. A
\* <video> element keeps its src whatever error events it receives.
C17_ImgSwappedOnce ==
  \A k \in 1..Len(imgs) :
    LET el == imgs[k]
        own == filtered[k].src
    IN IF el.tag = "img"
       THEN /\ el.errors = 0 => (el.src = own /\ el.writes = 0 /\ el.fallback = None)
            /\ el.errors >= 1 =>
                 (el.src = PLACEHOLDER /\ el.writes = 1 /\ el.fallback = <<"1">>)
       ELSE el.src = own /\ el.writes = 0

\* an <img> that received two error events, the second one for the
\* placeholder, next to a <video> that received one
C17_Witness ==
  \E k, v \in 1..Len(imgs) :
    /\ imgs[k].tag = "img"
    /\ imgs[k].errors = 2
    /\ imgs[k].src = PLACEHOLDER
    /\ imgs[k].writes = 1
    /\ imgs[v].tag = "video"
    /\ imgs[v].errors = 1

(***************************************************************************)
(* Path encoding                                                           *)
(***************************************************************************)
\* C18: the src of a normalised item is the src given when that is an
\* absolute http(s):// URL; otherwise it is the src given with its leading
\* slashes replaced by one slash (none when it had none), every "/" after
\* them kept as the separator and every other character percent-encoded, i.e.
\* the segments between the slashes encoded one by one and rejoined.
C18_PathEncoding ==
  LET absolute(p) ==
        \E n \in {7, 8} :
          /\ Len(p) >= n
          /\ toLowerCase(SubSeq(p, 1, n)) \in
               {<<"h","t","t","p",":","/","/">>, <<"h","t","t","p","s",":","/","/">>}
      lead(p) == Cardinality({i \in 1..Len(p) : \A j \in 1..i : p[j] = "/"})
      path(p) ==
        (IF lead(p) > 0 THEN <<"/">> ELSE <<>>)
          \o Concat([i \in 1..(Len(p) - lead(p)) |->
                       IF p[lead(p) + i] = "/" THEN <<"/">>
                       ELSE encodeURIComponent(<<p[lead(p) + i]>>)])
      expected(p) == IF absolute(p) THEN p ELSE path(p)
      kept == SelectSeq(raw, LAMBDA it : KeepItem([src |-> expected(it.src)]))
  IN (once # NotRun /\ once # Threw) =>
       /\ Len(once) = Len(kept)
       /\ \A k \in 1..Len(once) : once[k].src = expected(kept[k].src)

\* a src with two leading slashes, an empty segment and a space: one leading
\* slash is left, the empty segment stays and the space is encoded
C18_Witness ==
  /\ once # NotRun
  /\ Len(raw) = 1
  /\ raw[1].src = <<"/","/","m","/","/","a"," ","b",".","j","p","g">>
  /\ Len(once) = 1
  /\ once[1].src = <<"/","m","/","/","a","%","2","0","b",".","j","p","g">>

(***************************************************************************)
(* Year and month inference                                                *)
(***************************************************************************)
\* C19: year and month of a normalised item are both those of the first
\* /20NN/NN/ segment of its encoded src when the year given is absent or
\* begins with "unknown" and such a segment exists; in every other case both
\* are the year and the month given.
C19_YearMonthTogether ==
  LET digit(c) == c \in Range(Digits)
      segmentAt(s, i) ==
        /\ i + 8 <= Len(s)
        /\ SubSeq(s, i, i + 2) = <<"/", "2", "0">>
        /\ digit(s[i + 3]) /\ digit(s[i + 4])
        /\ s[i + 5] = "/"
        /\ digit(s[i + 6]) /\ digit(s[i + 7])
        /\ s[i + 8] = "/"
      segments(s) == {i \in 1..Len(s) : segmentAt(s, i)}
      first(s) == CHOOSE i \in segments(s) : \A j \in segments(s) : i <= j
      absent(y) == y = None \/ y = <<>> \/ startsWith(y, <<"u","n","k","n","o","w","n">>)
      kept == SelectSeq(raw, LAMBDA it : KeepItem([src |-> normalizeUrlPath(it.src)]))
  IN (once # NotRun /\ once # Threw) =>
       /\ Len(once) = Len(kept)
       /\ \A k \in 1..Len(once) :
            LET s == once[k].src
            IN IF absent(kept[k].year) /\ segments(s) # {}
               THEN /\ once[k].year = SubSeq(s, first(s) + 1, first(s) + 4)
                    /\ once[k].month = SubSeq(s, first(s) + 6, first(s) + 7)
               ELSE /\ once[k].year = kept[k].year
                    /\ once[k].month = kept[k].month

C21_SelectionsAreFacetValues ==
  /\ Range(activeTags) \subseteq Range(facets.tags) \cup Range(facets.colors)
  /\ Range(activeCategories) \subseteq Range(facets.categories)
  /\ \A t \in Range(activeTags) : Len(filteredOf(items, <<>>, <<t>>, <<>>)) > 0
  /\ \A c \in Range(activeCategories) : Len(filteredOf(items, <<>>, <<>>, <<c>>)) > 0

\* after the load a tag, a colour and a category are selected and a query is
\* typed
C21_Witness ==
  /\ pc = "done"
  /\ TagX \in Range(activeTags)
  /\ Red \in Range(activeTags)
  /\ ZIP_CATEGORIES[1] \in Range(activeCategories)
  /\ Len(trim(q)) > 0

(***************************************************************************)
(* The chip toggles                                                        *)
(***************************************************************************)
\* C22: whatever chips were clicked, neither selection list holds a value
\* twice, and a value is in a list exactly when it was clicked an odd number
\* of times since the last reset; and a step other than a reset adds or
\* removes at most one value, in one of the two lists, leaving the other
\* values in their order.
C22_ToggleParity ==
  /\ [](/\ Cardinality(Range(activeTags)) = Len(activeTags)
        /\ Cardinality(Range(activeCategories)) = Len(activeCategories)
        /\ Range(activeTags) = clicks.tags
        /\ Range(activeCategories) = clicks.categories)
  /\ [][~clicks'.reset =>
          /\ Cardinality((Range(activeTags) \ Range(activeTags'))
                           \cup (Range(activeTags') \ Range(activeTags))
                           \cup (Range(activeCategories) \ Range(activeCategories'))
                           \cup (Range(activeCategories') \ Range(activeCategories))) <= 1
          /\ Len(activeTags) + Len(activeCategories) - 1
               <= Len(activeTags') + Len(activeCategories')
          /\ Len(activeTags') + Len(activeCategories')
               <= Len(activeTags) + Len(activeCategories) + 1
          /\ SelectSeq(activeTags, LAMBDA x : x \in Range(activeTags'))
               = SelectSeq(activeTags', LAMBDA x : x \in Range(activeTags))
          /\ SelectSeq(activeCategories, LAMBDA x : x \in Range(activeCategories'))
               = SelectSeq(activeCategories', LAMBDA x : x \in Range(activeCategories))]_vars

\* the colour chip and the tag chip were each clicked an odd number of
\* times, the colour chip last turned on before the tag chip, and no
\* category is selected
C22_Witness ==
  /\ activeTags = <<Red, TagX>>
  /\ clicks.tags = {Red, TagX}
  /\ activeCategories = <<>>
  /\ clicks.categories = {}
  /\ ~clicks.reset

(***************************************************************************)
(* The reset button and the frame of the handlers                          *)
(***************************************************************************)
\* C23: a click on the reset button, in any state, leaves the query and both
\* selection lists empty, so that every item is shown, and changes neither
\* the item list nor the item of the quick view; and no step that changes the
\* query, a selection list or the quick view changes the item list.
C23_ResetAndFrame ==
  [][/\ (clicks'.reset /\ ~clicks.reset) =>
          /\ q' = <<>>
          /\ activeTags' = <<>>
          /\ activeCategories' = <<>>
          /\ filtered' = items'
          /\ items' = items
          /\ quick' = quick
     /\ (q' # q \/ activeTags' # activeTags \/ activeCategories' # activeCategories
            \/ quick' # quick) => items' = items]_vars

\* the reset button was the last to set the filter: all the loaded items
\* are shown, and the quick view is open
C23_Witness ==
  /\ clicks.reset
  /\ pc = "done"
  /\ Len(items) >= 2
  /\ filtered = items
  /\ quick # <<>>

====
